---- MODULE Spec2Model ----
(***************************************************************************)
(* gostockfish: a UCI protocol driver (Engine), its response parsers       *)
(* (ParseInfo, ParseBestMove) and the match loop (Match.Move, Match.Run).  *)
(*                                                                         *)
(* Protocol lines are TLA+ strings, handled character by character with    *)
(* Len, SubSeq and \o, so that the regular expressions and the splitting   *)
(* of the Go code are modelled by what they match, not by what they are    *)
(* meant to match.                                                         *)
(***************************************************************************)
EXTENDS Integers, Sequences, FiniteSets, TLC

(***************************************************************************)
(* Bounds of the model.                                                    *)
(***************************************************************************)
\* longest principal variation (number of move tokens) of a generated line
MaxPvLen == 2
\* info lines an engine emits during one search
MaxInfo == 2
\* turns played by a match that starts from the empty history
MaxTurns == 2
\* a match may also start this many moves (or fewer) below the ceiling
NearCeiling == 1
\* methods called on one handle, one after the other
MaxOps == 2

(***************************************************************************)
(* Strings.                                                                *)
(***************************************************************************)
Min(S) == CHOOSE x \in S : \A y \in S : x <= y

Ch(s, i) == IF i >= 1 /\ i <= Len(s) THEN SubSeq(s, i, i) ELSE ""

\* the literal lit occurs in s at position i
HasAt(s, i, lit) ==
    /\ i >= 1
    /\ i + Len(lit) - 1 <= Len(s)
    /\ SubSeq(s, i, i + Len(lit) - 1) = lit

DigitChars == {"0", "1", "2", "3", "4", "5", "6", "7", "8", "9"}

LowerChars == {"a", "b", "c", "d", "e", "f", "g", "h", "i", "j", "k", "l", "m",
               "n", "o", "p", "q", "r", "s", "t", "u", "v", "w", "x", "y", "z"}

UpperChars == {"A", "B", "C", "D", "E", "F", "G", "H", "I", "J", "K", "L", "M",
               "N", "O", "P", "Q", "R", "S", "T", "U", "V", "W", "X", "Y", "Z"}

\* \d of Go's regexp
IsDigit(c) == c \in DigitChars

\* \w of Go's regexp
IsWord(c) == c \in DigitChars \cup LowerChars \cup UpperChars \cup {"_"}

\* [^ ] of Go's regexp (a character that is there and is not a space)
IsNonSpace(c) == c # "" /\ c # " "

\* first position at or after i that does not hold a digit (greedy \d+)
DigitRunEnd(s, i) == Min({j \in i..(Len(s) + 1) : ~IsDigit(Ch(s, j))})

\* first position at or after i that does not hold a word character (greedy \w+)
WordRunEnd(s, i) == Min({j \in i..(Len(s) + 1) : ~IsWord(Ch(s, j))})

\* first position at or after i that holds a space or is past the end (greedy [^ ]+)
NonSpaceRunEnd(s, i) == Min({j \in i..(Len(s) + 1) : ~IsNonSpace(Ch(s, j))})

\* strings.Contains
Contains(s, sub) == \E i \in 1..(Len(s) + 1) : HasAt(s, i, sub)

WhiteSpace == {" ", "\t", "\r"}

RECURSIVE TrimLeft(_)
TrimLeft(s) ==
    IF s # "" /\ Ch(s, 1) \in WhiteSpace THEN TrimLeft(SubSeq(s, 2, Len(s))) ELSE s

RECURSIVE TrimRight(_)
TrimRight(s) ==
    IF s # "" /\ Ch(s, Len(s)) \in WhiteSpace THEN TrimRight(SubSeq(s, 1, Len(s) - 1)) ELSE s

\* strings.TrimSpace
TrimSpace(s) == TrimRight(TrimLeft(s))

RECURSIVE Split(_)
\* strings.Split(s, " "): every single space separates two tokens
\* (computed by halving at a middle space, to keep the recursion shallow)
Split(s) ==
    LET sp  == {i \in 1..Len(s) : Ch(s, i) = " "}
        mid == CHOOSE p \in sp :
                  Cardinality({q \in sp : q < p}) = Cardinality(sp) \div 2
    IN  IF sp = {} THEN <<s>>
        ELSE Split(SubSeq(s, 1, mid - 1)) \o Split(SubSeq(s, mid + 1, Len(s)))

RECURSIVE Join(_)
\* strings.Join(toks, " ") (computed by halving, to keep the recursion shallow)
Join(toks) ==
    IF toks = <<>> THEN ""
    ELSE IF Len(toks) = 1 THEN toks[1]
    ELSE Join(SubSeq(toks, 1, Len(toks) \div 2)) \o " "
         \o Join(SubSeq(toks, Len(toks) \div 2 + 1, Len(toks)))

Digits == "0123456789"

DigitOf(d) == SubSeq(Digits, d + 1, d + 1)

DigitVal(c) == CHOOSE d \in 0..9 : DigitOf(d) = c

RECURSIVE ItoaNat(_)
ItoaNat(n) == IF n < 10 THEN DigitOf(n) ELSE ItoaNat(n \div 10) \o DigitOf(n % 10)

\* strconv.Itoa
Itoa(n) == IF n < 0 THEN "-" \o ItoaNat(0 - n) ELSE ItoaNat(n)

RECURSIVE AtoiNat(_)
AtoiNat(s) ==
    IF s = "" THEN 0
    ELSE 10 * AtoiNat(SubSeq(s, 1, Len(s) - 1)) + DigitVal(Ch(s, Len(s)))

\* strconv.Atoi on the text of a -?\d+ group (the only texts it is given);
\* the groups of the model stay far below the range error of a 64-bit int
Atoi(s) == IF Ch(s, 1) = "-" THEN 0 - AtoiNat(SubSeq(s, 2, Len(s))) ELSE AtoiNat(s)

(***************************************************************************)
(* Values of the Go types.                                                 *)
(***************************************************************************)
\* a nil pointer
Nil == [nil |-> TRUE]

\* a nil error
NoErr == "no error"

\* Score{} and Info{}: the zero values
EmptyScore == [Eval |-> "", Value |-> 0]

EmptyInfo ==
    [Depth |-> 0, Seldepth |-> 0, Multipv |-> 0, Score |-> EmptyScore,
     Nodes |-> 0, Nps |-> 0, Tbhits |-> 0, Time |-> 0, Pv |-> ""]

(***************************************************************************)
(* ParseInfo.                                                              *)
(***************************************************************************)
\* "info string [^ ]+ evaluation using [^ ]+ enabled" matches at position i
NoticeAt(line, i) ==
    LET a  == i + Len("info string ")
        e1 == NonSpaceRunEnd(line, a)
        b  == e1 + Len(" evaluation using ")
        e2 == NonSpaceRunEnd(line, b)
    IN  /\ HasAt(line, i, "info string ")
        /\ e1 > a
        /\ HasAt(line, e1, " evaluation using ")
        /\ e2 > b
        /\ HasAt(line, e2, " enabled")

NoticeMatches(line) == \E i \in 1..Len(line) : NoticeAt(line, i)

\* length of the match of UCIMoveRegex at position i, 0 if there is none
MoveLenAt(s, i) ==
    IF /\ Ch(s, i) \in {"a", "b", "c", "d", "e", "f", "g", "h"}
       /\ IsDigit(Ch(s, i + 1))
       /\ Ch(s, i + 2) \in {"a", "b", "c", "d", "e", "f", "g", "h"}
       /\ IsDigit(Ch(s, i + 3))
    THEN IF Ch(s, i + 4) \in {"q", "r", "n", "b"} THEN 5 ELSE 4
    ELSE 0

RECURSIVE PvEnd(_, _)
\* ( move)* from position i on: the position after the last move matched
PvEnd(s, i) ==
    IF Ch(s, i) = " " /\ MoveLenAt(s, i + 1) > 0
    THEN PvEnd(s, i + 1 + MoveLenAt(s, i + 1))
    ELSE i

\* positions where PVRegex matches
PvStarts(line) ==
    {i \in 1..Len(line) : HasAt(line, i, " pv ") /\ MoveLenAt(line, i + 4) > 0}

\* the move_list group of the leftmost match
PvGroup(line) ==
    LET i == Min(PvStarts(line))
    IN  SubSeq(line, i + 4, PvEnd(line, i + 4 + MoveLenAt(line, i + 4)) - 1)

\* `score (?P<eval>\w+) (?P<value>-?\d+)` matches at position i
ScoreAt(line, i) ==
    LET a == i + Len("score ")
        e == WordRunEnd(line, a)
        v == IF Ch(line, e + 1) = "-" THEN e + 2 ELSE e + 1
    IN  /\ HasAt(line, i, "score ")
        /\ e > a
        /\ Ch(line, e) = " "
        /\ IsDigit(Ch(line, v))

ScoreStarts(line) == {i \in 1..Len(line) : ScoreAt(line, i)}

\* the eval and value groups of the leftmost match
ScoreGroups(line) ==
    LET i == Min(ScoreStarts(line))
        a == i + Len("score ")
        e == WordRunEnd(line, a)
        v == IF Ch(line, e + 1) = "-" THEN e + 2 ELSE e + 1
    IN  [eval |-> SubSeq(line, a, e - 1),
         value |-> SubSeq(line, e + 1, DigitRunEnd(line, v) - 1)]

SingleValueFields == <<"depth", "seldepth", "multipv", "nodes", "nps", "tbhits", "time">>

\* positions where field + ` (?P<value>\d+)` matches
FieldStarts(line, field) ==
    {i \in 1..Len(line) :
        HasAt(line, i, field \o " ") /\ IsDigit(Ch(line, i + Len(field) + 1))}

\* matches[0]: the match the code takes the value from
FieldMatchLast(line, field) == CHOOSE i \in FieldStarts(line, field) :
                                  \A k \in FieldStarts(line, field) : k <= i

FieldMatch(line, field) == Min(FieldStarts(line, field))

\* the value group of matches[0], converted by strconv.Atoi
FieldValue(line, field) ==
    LET a == FieldMatch(line, field) + Len(field) + 1
    IN  Atoi(SubSeq(line, a, DigitRunEnd(line, a) - 1))

\* the fields of singleValueFields, in order, that have no match
MissingFields(line) ==
    SelectSeq(SingleValueFields, LAMBDA f : FieldStarts(line, f) = {})

ParseInfo(line) ==
    IF NoticeMatches(line)
    THEN [info |-> EmptyInfo, err |-> NoErr]
    ELSE IF PvStarts(line) = {}
    THEN [info |-> Nil, err |-> "Could not parse pv: " \o line]
    ELSE IF ScoreStarts(line) = {}
    THEN [info |-> Nil, err |-> "Could not parse score: " \o line]
    ELSE IF MissingFields(line) # <<>>
    THEN [info |-> Nil, err |-> "Could not parse " \o MissingFields(line)[1] \o ": " \o line]
    ELSE [info |->
            [Depth    |-> FieldValue(line, "depth"),
             Seldepth |-> FieldValue(line, "seldepth"),
             Multipv  |-> FieldValue(line, "multipv"),
             Score    |-> [Eval  |-> ScoreGroups(line).eval,
                           Value |-> Atoi(ScoreGroups(line).value)],
             Nodes    |-> FieldValue(line, "nodes"),
             Nps      |-> FieldValue(line, "nps"),
             Tbhits   |-> FieldValue(line, "tbhits"),
             Time     |-> FieldValue(line, "time"),
             Pv       |-> PvGroup(line)],
          err |-> NoErr]

(***************************************************************************)
(* ParseBestMove.                                                          *)
(***************************************************************************)
\* the outcome of a call: a returned pair, or a run-time panic of the Go
\* program (index out of range, nil pointer dereference)
Panic == [kind |-> "panic"]

Returned(v, e) == [kind |-> "return", val |-> v, err |-> e]

\* splitText[k] of the Go code (indices from 0): a panic when k is out of range
HasIndex(splitText, k) == k + 1 <= Len(splitText)

Index(splitText, k) == splitText[k + 1]

\* ParseBestMove reading the ponder move one token too early
ParseBestMoveOff(line) ==
    LET splitText == Split(line)
    IN  IF ~HasIndex(splitText, 1) \/ (Len(splitText) >= 3 /\ ~HasIndex(splitText, 2))
        THEN Panic
        ELSE Returned([Move   |-> Index(splitText, 1),
                       Ponder |-> IF Len(splitText) < 3 THEN "" ELSE Index(splitText, 2),
                       Info   |-> Nil], NoErr)

ParseBestMove(line) ==
    LET splitText == Split(line)
    IN  IF ~HasIndex(splitText, 1) \/ (Len(splitText) >= 3 /\ ~HasIndex(splitText, 3))
        THEN Panic
        ELSE Returned([Move   |-> Index(splitText, 1),
                       Ponder |-> IF Len(splitText) < 3 THEN "" ELSE Index(splitText, 3),
                       Info   |-> Nil], NoErr)

(***************************************************************************)
(* The parsers on generated lines.                                         *)
(***************************************************************************)
VARIABLES
    parseGen,   \* how the input line was written (the values put into it)
    parseLine,  \* the input line
    parseFn,    \* the parser that was called, "none" before the call
    parseOut    \* what the call gave

parseVars == <<parseGen, parseLine, parseFn, parseOut>>

MoveToks == {"g7g6", "e7e8q"}

\* the principal variations: one to MaxPvLen move tokens
PvLists == UNION {[1..n -> MoveToks] : n \in 1..MaxPvLen}

InfoVals ==
    [depth : {2, 10}, seldepth : {3, 12}, multipv : {1},
     kind : {"cp", "mate"}, value : {-656, 0, 5},
     nodes : {43, 2378}, nps : {1189000}, tbhits : {0, 7}, time : {1},
     pv : PvLists]

\* the order in which the engine writes the fields before the pv field
EngineOrder == <<"depth", "seldepth", "multipv", "score", "nodes", "nps", "tbhits", "time">>

FormatField(v, key) ==
    CASE key = "depth"    -> "depth " \o Itoa(v.depth)
      [] key = "seldepth" -> "seldepth " \o Itoa(v.seldepth)
      [] key = "multipv"  -> "multipv " \o Itoa(v.multipv)
      [] key = "score"    -> "score " \o v.kind \o " " \o Itoa(v.value)
      [] key = "nodes"    -> "nodes " \o Itoa(v.nodes)
      [] key = "nps"      -> "nps " \o Itoa(v.nps)
      [] key = "tbhits"   -> "tbhits " \o Itoa(v.tbhits)
      [] key = "time"     -> "time " \o Itoa(v.time)

\* the info line holding the fields of order except the one named missing,
\* then the pv field
FormatInfo(v, order, missing) ==
    LET keys == SelectSeq(order, LAMBDA k : k # missing)
    IN  Join(<<"info">> \o [i \in 1..Len(keys) |-> FormatField(v, keys[i])]
             \o <<"pv">> \o v.pv)

\* orders of the fields before the pv field: the engine's order rotated,
\* reversed, and with its first two fields exchanged
FieldOrders ==
    {[i \in 1..8 |-> EngineOrder[((i + k - 1) % 8) + 1]] : k \in 0..7}
    \cup {[i \in 1..8 |-> EngineOrder[9 - i]]}
    \cup {[i \in 1..8 |-> EngineOrder[IF i = 1 THEN 2 ELSE IF i = 2 THEN 1 ELSE i]]}

\* the values written into the lines with the fields in another order
PermVals == {v \in InfoVals : Len(v.pv) = 1 /\ v.nodes = 43 /\ v.tbhits = 0}

NoticeTexts ==
    {"NNUE evaluation using nn-82215d0fd0df.nnue enabled",
     "classical evaluation enabled",
     "Hash table allocation: Windows large pages not used."}

PonderToks == MoveToks \cup {"(none)"}

\* the token lists of terminal lines: one to four tokens
BestMoveToks ==
    {<<"bestmove">>}
    \cup {<<"bestmove", x>> : x \in MoveToks}
    \cup {<<"bestmove", x, "ponder">> : x \in MoveToks}
    \cup {<<"bestmove", x, "ponder", y>> : x \in MoveToks, y \in PonderToks}

ParseGens ==
    {[shape |-> "info", vals |-> v, missing |-> m] :
        v \in InfoVals, m \in {"none"} \cup {SingleValueFields[i] : i \in 1..7}}
    \cup {[shape |-> "permuted", vals |-> v, order |-> o] :
            v \in PermVals, o \in FieldOrders}
    \cup {[shape |-> "notice", text |-> t] : t \in NoticeTexts}
    \cup {[shape |-> "bestmove", toks |-> t] : t \in BestMoveToks}

GenLine(g) ==
    CASE g.shape = "info"     -> FormatInfo(g.vals, EngineOrder, g.missing)
      [] g.shape = "permuted" -> FormatInfo(g.vals, g.order, "none")
      [] g.shape = "notice"   -> "info string " \o g.text
      [] g.shape = "bestmove" -> Join(g.toks)

(***************************************************************************)
(* The engine handles, the engine processes behind them, and the match.    *)
(***************************************************************************)
VARIABLES
    match,      \* the Match struct
    act,        \* Match.Move's locals: the active and the inactive side
    pc,         \* where the caller's thread is
    lastInfo,   \* Engine.BestMove's local lastInfo (Nil outside the call)
    sent,       \* per handle: the commands written to Stdin by the current call
    pipeIn,     \* per handle: the commands the engine has not read yet
    pipeOut,    \* per handle: the lines the engine wrote that were not read yet
    closed,     \* per handle: the engine process has exited
    searching,  \* per handle: the engine is in a search
    infoLeft,   \* per handle: info lines the search may still write
    emitted,    \* per handle: the last info line written by the search of this call
    hsRead,     \* how many lines the running (or the last) IsReady call has read
    hsRet,      \* what the last IsReady call returned, "pending" while it runs
    bmRet,      \* the outcome of this call's Engine.BestMove
    moveRet,    \* what the last Match.Move call returned
    runRet,     \* what Match.Run returned
    opRet,      \* what the last Engine function called on its own returned
    nops,       \* how many calls were made after the first one
    faulted,    \* per handle: an IsReady call on it has returned an error
    toSet       \* NewEngineWithAllOptions: the options of engine.Param not sent yet

matchVars ==
    <<match, act, pc, lastInfo, sent, pipeIn, pipeOut, closed, searching,
      infoLeft, emitted, hsRead, hsRet, bmRet, moveRet, runRet, opRet, nops,
      faulted, toSet>>

vars == <<matchVars, parseVars>>

\* MaxMoves is the maximum number of move in the play
MaxMoves == 500

Engines == {"engine1", "engine2"}

NilEngine == "nil engine"

\* the depth the handles were made with (NewEngineWithDepth(6))
EngineDepth == 6

OtherEngine(e) == IF e = "engine1" THEN "engine2" ELSE "engine1"

\* the names given to NewMatch
PlayerName(e) == IF e = "engine1" THEN "e1" ELSE "e2"

\* the two outcomes of NewMatch's rand.Int()%2
NewMatches ==
    {[White |-> PlayerName(w), WhiteEngine |-> w,
      Black |-> PlayerName(OtherEngine(w)), BlackEngine |-> OtherEngine(w),
      Moves |-> <<>>, Winner |-> "", WinnerEngine |-> NilEngine] : w \in Engines}

NotYet == [kind |-> "none"]

Again == [kind |-> "again"]

(***************************************************************************)
(* Engine: the commands, and the bodies of the two read loops.             *)
(***************************************************************************)
SetOptionCmd(name, value) == "setoption name " \o name \o " value " \o value

PositionCmd(moves) == "position startpos moves " \o Join(moves)

FENPositionCmd(fen) == "position fen " \o fen

GoCmd(depth) == "go depth " \o Itoa(depth)

\* IsReady that does not look for the "Unknown command:" diagnostic
IsReadyVerdictNoUnknown(text) ==
    LET line == TrimSpace(text)
    IN  IF Contains(line, "No such option:") THEN line
        ELSE IF line = "readyok" THEN NoErr
        ELSE "continue"

\* what IsReady does with one line it has read: "continue" to read on, or the
\* value it returns
IsReadyVerdict(text) ==
    LET line == TrimSpace(text)
    IN  IF Contains(line, "No such option:") THEN line
        ELSE IF Contains(line, "Unknown command:") THEN line
        ELSE IF line = "readyok" THEN NoErr
        ELSE "continue"

\* the error of Stdout.ReadLine when the engine has exited and nothing is left
EOF == "EOF"

\* BestMove's loop returning at the first info line, with the first move of
\* its pv
BestMoveOnLineEager(text, last) ==
    LET line      == TrimSpace(text)
        splitText == Split(line)
        parsed    == ParseInfo(line)
        bestMove  == ParseBestMove(line)
    IN  IF splitText[1] = "info"
        THEN IF parsed.err # NoErr
             THEN Returned(Nil, parsed.err)
             ELSE Returned([Move |-> Split(parsed.info.Pv)[1], Ponder |-> "",
                            Info |-> parsed.info], NoErr)
        ELSE IF splitText[1] = "bestmove"
        THEN IF bestMove.kind = "panic"
             THEN Panic
             ELSE Returned([bestMove.val EXCEPT !.Info = last], NoErr)
        ELSE [kind |-> "continue", lastInfo |-> last]

\* what one turn of BestMove's loop does with the line it has read:
\* it returns, it panics, or it reads on with a new lastInfo
BestMoveOnLine(text, last) ==
    LET line      == TrimSpace(text)
        splitText == Split(line)
        parsed    == ParseInfo(line)
        bestMove  == ParseBestMove(line)
    IN  IF splitText[1] = "info"
        THEN IF parsed.err # NoErr
             THEN Returned(Nil, parsed.err)
             ELSE [kind |-> "continue", lastInfo |-> parsed.info]
        ELSE IF splitText[1] = "bestmove"
        THEN IF bestMove.kind = "panic"
             THEN Panic
             ELSE Returned([bestMove.val EXCEPT !.Info = last], NoErr)
        ELSE [kind |-> "continue", lastInfo |-> last]

(***************************************************************************)
(* Match.Move and Match.Run.                                               *)
(***************************************************************************)
AtCeilingOff(moves) == Len(moves) > MaxMoves

\* len(match.Moves) == MaxMoves
AtCeiling(moves) == Len(moves) = MaxMoves

\* the sides with the parity test the wrong way round
ActiveSideSwapped(m) ==
    IF Len(m.Moves) % 2 = 0
    THEN [engine |-> m.BlackEngine, name |-> m.Black,
          otherEngine |-> m.WhiteEngine, otherName |-> m.White]
    ELSE [engine |-> m.WhiteEngine, name |-> m.White,
          otherEngine |-> m.BlackEngine, otherName |-> m.Black]

\* activeEngine, activeEngineName, inactiveEngine, inactiveEngineName
ActiveSide(m) ==
    IF Len(m.Moves) % 2 # 0
    THEN [engine |-> m.BlackEngine, name |-> m.Black,
          otherEngine |-> m.WhiteEngine, otherName |-> m.White]
    ELSE [engine |-> m.WhiteEngine, name |-> m.White,
          otherEngine |-> m.BlackEngine, otherName |-> m.Black]

\* the winner fields after a mate score, with a zero score counted as positive
MateWinnerZero(m, a, matenum) ==
    IF matenum >= 0
    THEN [m EXCEPT !.WinnerEngine = a.engine, !.Winner = a.name]
    ELSE [m EXCEPT !.WinnerEngine = a.otherEngine, !.Winner = a.otherName]

\* the winner fields after a mate score matenum
MateWinner(m, a, matenum) ==
    IF matenum > 0
    THEN [m EXCEPT !.WinnerEngine = a.engine, !.Winner = a.name]
    ELSE IF matenum < 0
    THEN [m EXCEPT !.WinnerEngine = a.otherEngine, !.Winner = a.otherName]
    ELSE m

\* Match.Move from the return of BestMove on: the outcome (a panic, or the
\* returned pair) and the match it leaves
MoveAfterBestMove(m, a, bm) ==
    IF bm.err # NoErr
    THEN [out |-> Returned(FALSE, bm.err), match |-> m]
    ELSE LET appended == [m EXCEPT !.Moves = Append(m.Moves, bm.val.Move)]
         IN  IF bm.val.Info = Nil
             THEN [out |-> Panic, match |-> appended]
             ELSE IF bm.val.Info.Score.Eval = "mate"
             THEN [out |-> Returned(FALSE, NoErr),
                   match |-> MateWinner(appended, a, bm.val.Info.Score.Value)]
             ELSE IF bm.val.Ponder # "(none)"
             THEN [out |-> Returned(TRUE, NoErr), match |-> appended]
             ELSE [out |-> Returned(FALSE, NoErr), match |-> appended]

\* Match.Run after a call of Match.Move that returned: the value Run returns,
\* or Again when it calls Match.Move once more
RunAfterMove(m, mv) ==
    IF mv.err # NoErr THEN Returned("", mv.err)
    ELSE IF ~mv.val THEN Returned(m.Winner, NoErr)
    ELSE Again

(***************************************************************************)
(* The engine process: reads the commands in order, answers isready with   *)
(* readyok, may answer any other command but go with a diagnostic, writes  *)
(* info lines and then one bestmove line for a search, and may exit at any *)
(* time.                                                                   *)
(*                                                                         *)
(* The caller sees an engine only through the order of the lines in the    *)
(* pipe, and its reads block: when an engine writes, relative to the reads,*)
(* changes nothing the caller can observe.  An engine therefore takes its  *)
(* steps while the caller is suspended in a read of its output that cannot *)
(* return.                                                                 *)
(***************************************************************************)
\* where the caller's thread is inside IsReady's loop: called by
\* SetPosition in Match.Move, by Go in BestMove in Match.Move, by Go in a
\* BestMove called on its own, by a method called on its own, or by a
\* SetOption in NewEngineWithAllOptions
HandshakePcs ==
    {"Move.SetPosition", "Move.BestMove.Go", "BestMove.Go",
     "SetOption", "NewGame", "SetPosition", "SetFENPosition", "Go",
     "Launch.Ponder", "Launch.Param"}

\* where it is inside BestMove's loop: in Match.Move, or called on its own
BestMovePcs == {"Move.BestMove", "BestMove"}

\* Stdout.ReadLine returns: with a line, or with an error at the end of the stream
CanRead(e) == pipeOut[e] # <<>> \/ closed[e]

\* the caller's thread is suspended in ReadLine on the Stdout of handle e
Suspended(e) ==
    /\ pc \in HandshakePcs \cup BestMovePcs
    /\ e = act.engine
    /\ ~CanRead(e)

\* the info lines of a search: one centipawn score and the mate scores
SearchVals ==
    {[depth |-> 6, seldepth |-> 8, multipv |-> 1, kind |-> s.kind, value |-> s.value,
      nodes |-> 2378, nps |-> 1189000, tbhits |-> 0, time |-> 2, pv |-> <<"e2e4", "e7e5">>] :
        s \in {[kind |-> "cp", value |-> 13]}
              \cup [kind : {"mate"}, value : {-1000000, -1, 0, 1, 1000000}]}

SearchInfoLines == {FormatInfo(v, EngineOrder, "none") : v \in SearchVals}

BestMoveLines == {"bestmove e2e4 ponder e7e5", "bestmove e2e4 ponder (none)", "bestmove e2e4"}

\* the diagnostic an engine writes for a command it does not take
Diagnostic(cmd) ==
    IF HasAt(cmd, 1, "setoption name ")
    THEN "No such option: "
         \o SubSeq(cmd, Len("setoption name ") + 1,
                   Min({i \in 1..Len(cmd) : HasAt(cmd, i, " value ")}) - 1)
    ELSE "Unknown command: " \o cmd

Emit(e, line) == pipeOut' = [pipeOut EXCEPT ![e] = Append(@, line)]

EngineReadCommand(e) ==
    /\ Suspended(e)
    /\ ~closed[e]
    /\ pipeIn[e] # <<>>
    /\ pipeIn' = [pipeIn EXCEPT ![e] = Tail(@)]
    /\ IF Head(pipeIn[e]) = "isready"
       THEN Emit(e, "readyok") /\ UNCHANGED <<searching, infoLeft, emitted>>
       ELSE IF HasAt(Head(pipeIn[e]), 1, "go ")
       THEN /\ searching' = [searching EXCEPT ![e] = TRUE]
            /\ infoLeft' = [infoLeft EXCEPT ![e] = MaxInfo]
            /\ emitted' = [emitted EXCEPT ![e] = ""]
            /\ UNCHANGED pipeOut
       ELSE IF Head(pipeIn[e]) = "uci"
       THEN Emit(e, "uciok") /\ UNCHANGED <<searching, infoLeft, emitted>>
       ELSE UNCHANGED <<pipeOut, searching, infoLeft, emitted>>
    /\ UNCHANGED <<match, act, pc, lastInfo, sent, closed, hsRead, hsRet, bmRet,
                   moveRet, runRet, opRet, nops>>
    /\ UNCHANGED <<faulted, toSet>>
    /\ UNCHANGED parseVars

EngineRejectCommand(e) ==
    /\ Suspended(e)
    /\ ~closed[e]
    /\ pipeIn[e] # <<>>
    /\ Head(pipeIn[e]) # "isready"
    /\ ~HasAt(Head(pipeIn[e]), 1, "go ")
    /\ pipeIn' = [pipeIn EXCEPT ![e] = Tail(@)]
    /\ Emit(e, Diagnostic(Head(pipeIn[e])))
    /\ UNCHANGED <<match, act, pc, lastInfo, sent, closed, searching, infoLeft,
                   emitted, hsRead, hsRet, bmRet, moveRet, runRet, opRet, nops>>
    /\ UNCHANGED <<faulted, toSet>>
    /\ UNCHANGED parseVars

EngineInfo(e) ==
    /\ Suspended(e)
    /\ ~closed[e]
    /\ searching[e]
    /\ infoLeft[e] > 0
    /\ \E line \in SearchInfoLines :
          /\ Emit(e, line)
          /\ emitted' = [emitted EXCEPT ![e] = line]
    /\ infoLeft' = [infoLeft EXCEPT ![e] = @ - 1]
    /\ UNCHANGED <<match, act, pc, lastInfo, sent, pipeIn, closed, searching,
                   hsRead, hsRet, bmRet, moveRet, runRet, opRet, nops>>
    /\ UNCHANGED <<faulted, toSet>>
    /\ UNCHANGED parseVars

EngineBestMove(e) ==
    /\ Suspended(e)
    /\ ~closed[e]
    /\ searching[e]
    /\ \E line \in BestMoveLines : Emit(e, line)
    /\ searching' = [searching EXCEPT ![e] = FALSE]
    /\ infoLeft' = [infoLeft EXCEPT ![e] = 0]
    /\ UNCHANGED <<match, act, pc, lastInfo, sent, pipeIn, closed, emitted,
                   hsRead, hsRet, bmRet, moveRet, runRet, opRet, nops>>
    /\ UNCHANGED <<faulted, toSet>>
    /\ UNCHANGED parseVars

EngineExit(e) ==
    /\ Suspended(e)
    /\ ~closed[e]
    /\ closed' = [closed EXCEPT ![e] = TRUE]
    /\ UNCHANGED <<match, act, pc, lastInfo, sent, pipeIn, pipeOut, searching,
                   infoLeft, emitted, hsRead, hsRet, bmRet, moveRet, runRet,
                   opRet, nops>>
    /\ UNCHANGED <<faulted, toSet>>
    /\ UNCHANGED parseVars

(***************************************************************************)
(* The caller's thread.  It is suspended only in Stdout.ReadLine; each     *)
(* action runs from one read to the next.                                  *)
(***************************************************************************)
\* Engine.Put, once for each command of cmds, as the first writes of a call
PutFirst(e, cmds) ==
    /\ sent' = [h \in Engines |-> IF h = e THEN cmds ELSE <<>>]
    /\ pipeIn' = [pipeIn EXCEPT ![e] = @ \o cmds]

\* Engine.Put, once for each command of cmds, later in a call
Put(e, cmds) ==
    /\ sent' = [sent EXCEPT ![e] = @ \o cmds]
    /\ pipeIn' = [pipeIn EXCEPT ![e] = @ \o cmds]

AtEOF(e) == pipeOut[e] = <<>>

\* the line is taken out of the pipe
Consume(e) == pipeOut' = [pipeOut EXCEPT ![e] = IF AtEOF(e) THEN @ ELSE Tail(@)]

\* Match.Move at the move limit, and Match.Run returning after it
MoveAtCeiling ==
    /\ pc = "Run"
    /\ AtCeiling(match.Moves)
    /\ moveRet' = Returned(FALSE, NoErr)
    /\ runRet' = RunAfterMove(match, Returned(FALSE, NoErr))
    /\ pc' = "returned"
    /\ UNCHANGED <<match, act, lastInfo, sent, pipeIn, pipeOut, closed, searching,
                   infoLeft, emitted, hsRead, hsRet, bmRet, opRet, nops>>
    /\ UNCHANGED <<faulted, toSet>>
    /\ UNCHANGED parseVars

\* Match.Move up to the first read of SetPosition's IsReady
MoveBegin ==
    /\ pc = "Run"
    /\ ~AtCeiling(match.Moves)
    /\ Len(match.Moves) < MaxTurns \/ Len(match.Moves) >= MaxMoves - NearCeiling
    /\ act' = ActiveSide(match)
    /\ PutFirst(ActiveSide(match).engine, <<PositionCmd(match.Moves), "isready">>)
    /\ pc' = "Move.SetPosition"
    /\ hsRead' = 0
    /\ hsRet' = "pending"
    /\ bmRet' = NotYet
    /\ emitted' = [e \in Engines |-> ""]
    /\ UNCHANGED <<match, lastInfo, pipeOut, closed, searching, infoLeft,
                   moveRet, runRet, opRet, nops>>
    /\ UNCHANGED <<faulted, toSet>>
    /\ UNCHANGED parseVars

\* baseParam, with no option given by the caller and random = false
BaseParam ==
    [name \in {"Contempt", "Threads", "Hash", "MultiPV", "Skill Level",
               "Move Overhead", "Slow Mover", "UCI_Chess960"} |->
        CASE name = "Contempt"      -> "0"
          [] name = "Threads"       -> "1"
          [] name = "Hash"          -> "16"
          [] name = "MultiPV"       -> "1"
          [] name = "Skill Level"   -> "20"
          [] name = "Move Overhead" -> "30"
          [] name = "Slow Mover"    -> "80"
          [] name = "UCI_Chess960"  -> "false"]

\* the handle NewEngineWithAllOptions returns
EngineHandle == [Depth |-> EngineDepth, Param |-> BaseParam]

\* NewEngineWithAllOptions from the return of a SetOption on: the range loop
\* over engine.Param takes the options in any order; after the last one the
\* handle is returned
LaunchNext ==
    IF toSet = {}
    THEN /\ pc' = "idle"
         /\ opRet' = Returned(EngineHandle, NoErr)
         /\ UNCHANGED <<sent, pipeIn, toSet>>
    ELSE \E name \in toSet :
            /\ PutFirst(act.engine, <<SetOptionCmd(name, BaseParam[name]), "isready">>)
            /\ toSet' = toSet \ {name}
            /\ pc' = "Launch.Param"
            /\ UNCHANGED opRet

\* one read of IsReady's loop.  When IsReady returns, its caller goes on to
\* the next read or to its own return: Match.Move drops SetPosition's error
\* and calls BestMove, which calls Go; BestMove drops Go's error and starts
\* its loop; a method called on its own returns IsReady's value;
\* NewEngineWithAllOptions drops the error of the Ponder option and returns
\* the error of an option of engine.Param
IsReadyStep ==
    /\ pc \in HandshakePcs
    /\ CanRead(act.engine)
    /\ Consume(act.engine)
    /\ LET e       == act.engine
           verdict == IF AtEOF(e) THEN EOF ELSE IsReadyVerdict(Head(pipeOut[e]))
       IN  /\ hsRead' = (IF hsRet = "pending" THEN hsRead ELSE 0)
                        + (IF AtEOF(e) THEN 0 ELSE 1)
           /\ IF verdict = "continue"
              THEN /\ hsRet' = "pending"
                   /\ UNCHANGED <<pc, lastInfo, sent, pipeIn, opRet, faulted, toSet>>
              ELSE /\ hsRet' = verdict
                   /\ faulted' = [faulted EXCEPT ![e] = @ \/ verdict # NoErr]
                   /\ CASE pc = "Move.SetPosition" ->
                             /\ lastInfo' = Nil
                             /\ Put(e, <<GoCmd(EngineDepth), "isready">>)
                             /\ pc' = "Move.BestMove.Go"
                             /\ UNCHANGED <<opRet, toSet>>
                        [] pc = "Move.BestMove.Go" ->
                             /\ pc' = "Move.BestMove"
                             /\ UNCHANGED <<lastInfo, sent, pipeIn, opRet, toSet>>
                        [] pc = "BestMove.Go" ->
                             /\ pc' = "BestMove"
                             /\ UNCHANGED <<lastInfo, sent, pipeIn, opRet, toSet>>
                        [] pc = "Launch.Ponder" ->
                             /\ LaunchNext
                             /\ UNCHANGED lastInfo
                        [] pc = "Launch.Param" /\ verdict = NoErr ->
                             /\ LaunchNext
                             /\ UNCHANGED lastInfo
                        [] OTHER ->
                             /\ opRet' = Returned(Nil, verdict)
                             /\ pc' = "idle"
                             /\ UNCHANGED <<lastInfo, sent, pipeIn, toSet>>
    /\ UNCHANGED <<match, act, closed, searching, infoLeft, emitted,
                   bmRet, moveRet, runRet, nops>>
    /\ UNCHANGED parseVars

\* one read of BestMove's loop.  When BestMove returns inside Match.Move,
\* Match.Move finishes and Match.Run either returns or calls Match.Move again
BestMoveStep ==
    /\ pc \in BestMovePcs
    /\ CanRead(act.engine)
    /\ Consume(act.engine)
    /\ LET e  == act.engine
           r  == IF AtEOF(e) THEN Returned(Nil, EOF)
                 ELSE BestMoveOnLine(Head(pipeOut[e]), lastInfo)
           mv == MoveAfterBestMove(match, act, r)
       IN  CASE r.kind = "continue" ->
                  /\ lastInfo' = r.lastInfo
                  /\ UNCHANGED <<match, pc, bmRet, moveRet, runRet, opRet>>
             [] r.kind = "panic" ->
                  /\ bmRet' = Panic
                  /\ pc' = "panicked"
                  /\ lastInfo' = Nil
                  /\ UNCHANGED <<match, moveRet, runRet, opRet>>
             [] r.kind = "return" /\ pc = "BestMove" ->
                  /\ bmRet' = r
                  /\ opRet' = r
                  /\ pc' = "idle"
                  /\ lastInfo' = Nil
                  /\ UNCHANGED <<match, moveRet, runRet>>
             [] r.kind = "return" /\ pc = "Move.BestMove" ->
                  /\ bmRet' = r
                  /\ match' = mv.match
                  /\ moveRet' = mv.out
                  /\ IF mv.out.kind = "panic"
                     THEN pc' = "panicked" /\ UNCHANGED runRet
                     ELSE IF RunAfterMove(mv.match, mv.out) = Again
                     THEN pc' = "Run" /\ UNCHANGED runRet
                     ELSE pc' = "returned" /\ runRet' = RunAfterMove(mv.match, mv.out)
                  /\ lastInfo' = Nil
                  /\ UNCHANGED opRet
    /\ UNCHANGED <<act, sent, pipeIn, closed, searching, infoLeft, emitted,
                   hsRead, hsRet, nops>>
    /\ UNCHANGED <<faulted, toSet>>
    /\ UNCHANGED parseVars

\* the histories a match is started from: the empty one of NewMatch, and the
\* ones a match has when it is at most NearCeiling moves below the move limit
StartHistories ==
    {<<>>} \cup {[i \in 1..n |-> "e2e4"] : n \in (MaxMoves - NearCeiling)..MaxMoves}

\* the parsers are not running
ParseIdle ==
    /\ parseGen = [shape |-> "none"]
    /\ parseLine = ""
    /\ parseFn = "none"
    /\ parseOut = Nil

\* two handles after launch and NewMatch: nothing is in flight
HandlesIdle ==
    /\ act = ActiveSide(match)
    /\ lastInfo = Nil
    /\ sent = [e \in Engines |-> <<>>]
    /\ pipeIn = [e \in Engines |-> <<>>]
    /\ pipeOut = [e \in Engines |-> <<>>]
    /\ closed = [e \in Engines |-> FALSE]
    /\ searching = [e \in Engines |-> FALSE]
    /\ infoLeft = [e \in Engines |-> 0]
    /\ emitted = [e \in Engines |-> ""]
    /\ hsRead = 0
    /\ hsRet = NoErr
    /\ bmRet = NotYet
    /\ moveRet = NotYet
    /\ runRet = NotYet
    /\ opRet = NotYet
    /\ nops = 0
    /\ faulted = [e \in Engines |-> FALSE]
    /\ toSet = {}

Init ==
    /\ \E m \in NewMatches, h \in StartHistories : match = [m EXCEPT !.Moves = h]
    /\ pc = "Run"
    /\ HandlesIdle
    /\ ParseIdle

Next ==
    \/ MoveAtCeiling
    \/ MoveBegin
    \/ IsReadyStep
    \/ BestMoveStep
    \/ \E e \in Engines : EngineReadCommand(e)
    \/ \E e \in Engines : EngineRejectCommand(e)
    \/ \E e \in Engines : EngineInfo(e)
    \/ \E e \in Engines : EngineBestMove(e)
    \/ \E e \in Engines : EngineExit(e)

Spec == Init /\ [][Next]_vars

(***************************************************************************)
(* Match.Run called again on the match it has returned from.               *)
(***************************************************************************)
\* Match.Run is called once more: it calls Match.Move
RunAgain ==
    /\ pc = "returned"
    /\ nops < MaxOps
    /\ nops' = nops + 1
    /\ pc' = "Run"
    /\ UNCHANGED <<match, act, lastInfo, sent, pipeIn, pipeOut, closed, searching,
                   infoLeft, emitted, hsRead, hsRet, bmRet, moveRet, runRet, opRet>>
    /\ UNCHANGED <<faulted, toSet>>
    /\ UNCHANGED parseVars

NextRerun == Next \/ RunAgain

SpecRerun == Init /\ [][NextRerun]_vars

(***************************************************************************)
(* The methods of one handle called on their own, one after the other.     *)
(***************************************************************************)
OptionArgs == {<<"Ponder", "false">>, <<"Skill Level", "20">>}

PositionArgs == {<<>>, <<"e2e4", "e7e5">>}

FENArgs == {"rnbqkbnr/pppppppp/8/8/4P3/8/PPPP1PPP/RNBQKBNR b KQkq e3 0 1"}

\* the start of a method: its command and IsReady's probe are written, and
\* the thread goes to the first read
Begin(name, cmd) ==
    /\ nops' = nops + 1
    /\ PutFirst(act.engine, <<cmd, "isready">>)
    /\ pc' = name
    /\ hsRead' = 0
    /\ hsRet' = "pending"
    /\ bmRet' = NotYet
    /\ opRet' = NotYet
    /\ lastInfo' = Nil
    /\ emitted' = [e \in Engines |-> ""]
    /\ UNCHANGED <<match, act, pipeOut, closed, searching, infoLeft, moveRet, runRet>>
    /\ UNCHANGED <<faulted, toSet>>
    /\ UNCHANGED parseVars

CallSetOption ==
    /\ pc = "idle"
    /\ nops < MaxOps
    /\ \E a \in OptionArgs : Begin("SetOption", SetOptionCmd(a[1], a[2]))

CallNewGame ==
    /\ pc = "idle"
    /\ nops < MaxOps
    /\ Begin("NewGame", "ucinewgame")

CallSetPosition ==
    /\ pc = "idle"
    /\ nops < MaxOps
    /\ \E moves \in PositionArgs : Begin("SetPosition", PositionCmd(moves))

CallSetFENPosition ==
    /\ pc = "idle"
    /\ nops < MaxOps
    /\ \E fen \in FENArgs : Begin("SetFENPosition", FENPositionCmd(fen))

CallGo ==
    /\ pc = "idle"
    /\ nops < MaxOps
    /\ Begin("Go", GoCmd(EngineDepth))

\* BestMove up to the first read of Go's IsReady
CallBestMove ==
    /\ pc = "idle"
    /\ nops < MaxOps
    /\ Begin("BestMove.Go", GoCmd(EngineDepth))

\* one handle after launch: nothing is in flight
InitDriver ==
    /\ match \in {m \in NewMatches : m.WhiteEngine = "engine1"}
    /\ pc = "idle"
    /\ HandlesIdle
    /\ ParseIdle

NextDriver ==
    \/ CallSetOption
    \/ CallNewGame
    \/ CallSetPosition
    \/ CallSetFENPosition
    \/ CallGo
    \/ CallBestMove
    \/ IsReadyStep
    \/ BestMoveStep
    \/ \E e \in Engines : EngineReadCommand(e)
    \/ \E e \in Engines : EngineRejectCommand(e)
    \/ \E e \in Engines : EngineInfo(e)
    \/ \E e \in Engines : EngineBestMove(e)
    \/ \E e \in Engines : EngineExit(e)

SpecDriver == InitDriver /\ [][NextDriver]_vars

(***************************************************************************)
(* BestMove called on a handle whose engine answers every isready with     *)
(* readyok, ends every search with one bestmove line, rejects no command   *)
(* and does not exit.                                                      *)
(***************************************************************************)
NextAnswering ==
    \/ CallBestMove
    \/ IsReadyStep
    \/ BestMoveStep
    \/ \E e \in Engines : EngineReadCommand(e)
    \/ \E e \in Engines : EngineInfo(e)
    \/ \E e \in Engines : EngineBestMove(e)

SpecAnswering == InitDriver /\ [][NextAnswering]_vars

(***************************************************************************)
(* NewEngineWithAllOptions on a started engine process.                    *)
(***************************************************************************)
\* NewEngineWithAllOptions up to the first read of the first SetOption's
\* IsReady: "uci" is written, then the Ponder option if ponder is false
LaunchBegin ==
    /\ pc = "Launch"
    /\ \E ponder \in BOOLEAN :
          IF ~ponder
          THEN /\ PutFirst(act.engine,
                           <<"uci", SetOptionCmd("Ponder", "false"), "isready">>)
               /\ toSet' = DOMAIN BaseParam
               /\ pc' = "Launch.Ponder"
          ELSE \E name \in DOMAIN BaseParam :
                  /\ PutFirst(act.engine,
                              <<"uci", SetOptionCmd(name, BaseParam[name]), "isready">>)
                  /\ toSet' = DOMAIN BaseParam \ {name}
                  /\ pc' = "Launch.Param"
    /\ hsRead' = 0
    /\ hsRet' = "pending"
    /\ UNCHANGED <<match, act, lastInfo, pipeOut, closed, searching, infoLeft,
                   emitted, bmRet, moveRet, runRet, opRet, nops, faulted>>
    /\ UNCHANGED parseVars

\* the engine process has been started and nothing was written yet
InitLaunch ==
    /\ match \in {m \in NewMatches : m.WhiteEngine = "engine1"}
    /\ pc = "Launch"
    /\ HandlesIdle
    /\ ParseIdle

NextLaunch ==
    \/ LaunchBegin
    \/ IsReadyStep
    \/ \E e \in Engines : EngineReadCommand(e)
    \/ \E e \in Engines : EngineRejectCommand(e)
    \/ \E e \in Engines : EngineExit(e)

SpecLaunch == InitLaunch /\ [][NextLaunch]_vars

(***************************************************************************)
(* The parsers called on the generated lines.                              *)
(***************************************************************************)
\* the match is not running
MatchIdle ==
    /\ match \in {m \in NewMatches : m.WhiteEngine = "engine1"}
    /\ pc = "returned"
    /\ HandlesIdle

InitParse ==
    /\ parseGen \in ParseGens
    /\ parseLine = GenLine(parseGen)
    /\ parseFn = "none"
    /\ parseOut = Nil
    /\ MatchIdle

CallParseInfo ==
    /\ parseFn = "none"
    /\ parseGen.shape \in {"info", "permuted", "notice"}
    /\ parseFn' = "ParseInfo"
    /\ parseOut' = ParseInfo(parseLine)
    /\ UNCHANGED <<parseGen, parseLine>>
    /\ UNCHANGED matchVars

CallParseBestMove ==
    /\ parseFn = "none"
    /\ parseGen.shape = "bestmove"
    /\ parseFn' = "ParseBestMove"
    /\ parseOut' = ParseBestMove(parseLine)
    /\ UNCHANGED <<parseGen, parseLine>>
    /\ UNCHANGED matchVars

NextParse == CallParseInfo \/ CallParseBestMove

SpecParse == InitParse /\ [][NextParse]_vars

(***************************************************************************)
(* The properties.                                                         *)
(***************************************************************************)
\* the side to move by the parity of the history length: white on even
\* lengths (the empty history included), black on odd lengths
SideToMove(m) == IF Len(m.Moves) % 2 = 0 THEN "white" ELSE "black"

EngineToMove(m) == IF SideToMove(m) = "white" THEN m.WhiteEngine ELSE m.BlackEngine

NameToMove(m) == IF SideToMove(m) = "white" THEN m.White ELSE m.Black

NameNotToMove(m) == IF SideToMove(m) = "white" THEN m.Black ELSE m.White

\* C1: in every call of Match.Move the active side is the one the parity of
\* the history length gives, and every command written during the call
\* (position, go, isready) is written to that side's handle; the other
\* handle gets no command.
C1_OnlyActiveSideCommanded ==
    [][/\ \A e \in Engines :
             (sent'[e] # sent[e] /\ sent'[e] # <<>>) => e = EngineToMove(match)
       /\ (pc = "Run" /\ pc' = "Move.SetPosition")
             => /\ act'.engine = EngineToMove(match)
                /\ sent'[act'.engine] = <<PositionCmd(match.Moves), "isready">>
       /\ (pc = "Move.SetPosition" /\ pc' = "Move.BestMove.Go")
             => sent'[act.engine] = sent[act.engine] \o <<GoCmd(EngineDepth), "isready">>]_vars

\* in a turn at odd history length black's handle got the four commands of
\* the turn and white's handle none
C1_Witness ==
    /\ pc = "Move.BestMove"
    /\ Len(match.Moves) = 1
    /\ sent[match.WhiteEngine] = <<>>
    /\ Len(sent[match.BlackEngine]) = 4

\* C2: when BestMove returns an evaluation with a mate score v, Match.Move
\* appends the returned move and returns continues = false with no error;
\* v > 0 records the side to move as winner, v < 0 the other side, v = 0
\* leaves the winner absent.
C2_MateEndsMatch ==
    [][(/\ pc = "Move.BestMove"
        /\ pc' # "Move.BestMove"
        /\ bmRet'.kind = "return"
        /\ bmRet'.err = NoErr
        /\ bmRet'.val.Info # Nil
        /\ bmRet'.val.Info.Score.Eval = "mate")
       => LET v == bmRet'.val.Info.Score.Value
          IN  /\ match'.Moves = Append(match.Moves, bmRet'.val.Move)
              /\ moveRet' = Returned(FALSE, NoErr)
              /\ v > 0 => match'.Winner = NameToMove(match)
                          /\ match'.WinnerEngine = EngineToMove(match)
              /\ v < 0 => match'.Winner = NameNotToMove(match)
                          /\ match'.WinnerEngine = OtherEngine(EngineToMove(match))
              /\ v = 0 => match'.Winner = "" /\ match'.WinnerEngine = NilEngine]_vars

\* black, to move at an odd history length, reported a large negative mate
\* score, and white is recorded as the winner
C2_Witness ==
    /\ pc = "returned"
    /\ bmRet.kind = "return"
    /\ bmRet.err = NoErr
    /\ bmRet.val.Info # Nil
    /\ bmRet.val.Info.Score = [Eval |-> "mate", Value |-> -1000000]
    /\ Len(match.Moves) = 2
    /\ match.Winner = match.White
    /\ runRet = Returned(match.White, NoErr)

\* C3: at a history of MaxMoves moves Match.Move returns continues = false
\* with no error, writes no command and leaves the match as it is; the match
\* that got there without a mate score and without a "(none)" ponder move
\* ends with the winner absent.
C3_CeilingEndsWithoutWinner ==
    [][(pc = "Run" /\ Len(match.Moves) = MaxMoves)
       => /\ moveRet' = Returned(FALSE, NoErr)
          /\ sent' = sent
          /\ match' = match
          /\ pc' = "returned"
          /\ runRet' = Returned("", NoErr)]_vars

\* a turn with a centipawn score and a ponder move brought the history to
\* MaxMoves, and the next call of Match.Move ended the run without a winner
C3_Witness ==
    /\ pc = "returned"
    /\ Len(match.Moves) = MaxMoves
    /\ bmRet.kind = "return"
    /\ bmRet.err = NoErr
    /\ bmRet.val.Info # Nil
    /\ bmRet.val.Info.Score.Eval = "cp"
    /\ bmRet.val.Ponder # "(none)"
    /\ runRet = Returned("", NoErr)

\* a line with one of the two diagnostics
IsDiagnosticLine(line) ==
    Contains(line, "No such option:") \/ Contains(line, "Unknown command:")

\* a line that ends the handshake
IsDecidingLine(line) == line = "readyok" \/ IsDiagnosticLine(line)

\* C4: the readiness handshake reads the lines of the pipe in order, one per
\* read; every line read before the deciding line is neither readyok nor a
\* diagnostic and is dropped without any effect; the handshake returns
\* success exactly on a readyok line read before any diagnostic line, and
\* on a diagnostic line read first it returns that line as the error; it
\* reads nothing after the deciding line.
C4_Handshake ==
    [][(pc \in HandshakePcs /\ CanRead(act.engine))
       => LET e      == act.engine
              before == IF hsRet = "pending" THEN hsRead ELSE 0
              line   == TrimSpace(Head(pipeOut[e]))
          IN  IF pipeOut[e] = <<>>
              THEN hsRet' \notin {NoErr, "pending"} /\ hsRead' = before
              ELSE /\ pipeOut'[e] = Tail(pipeOut[e])
                   /\ hsRead' = before + 1
                   /\ IsDiagnosticLine(line) => hsRet' = line /\ pc' # pc
                   /\ (hsRet' = NoErr) <=> (line = "readyok")
                   /\ line = "readyok" => pc' # pc
                   /\ ~IsDecidingLine(line)
                         => /\ hsRet' = "pending"
                            /\ <<pc, match, lastInfo, sent, pipeIn, opRet>>
                                 = <<pc, match, lastInfo, sent, pipeIn, opRet>>'
                   /\ (pc' = "idle") => opRet' = Returned(Nil, hsRet')]_vars

\* the handshake of SetFENPosition, called while the search of an earlier Go
\* was still writing, dropped an info line and the bestmove line, and then
\* returned the diagnostic it read before readyok
C4_Witness ==
    /\ pc = "idle"
    /\ Len(sent[act.engine]) = 2
    /\ HasAt(sent[act.engine][1], 1, "position fen ")
    /\ emitted[act.engine] \in SearchInfoLines
    /\ ~searching[act.engine]
    /\ hsRead = 3
    /\ HasAt(hsRet, 1, "Unknown command: position fen ")
    /\ opRet = Returned(Nil, hsRet)
    /\ pipeIn[act.engine] = <<"isready">>

\* C5: BestMove returns the bestmove line's result with the parse of the
\* last info line the engine wrote for this search before the bestmove
\* line, and with no info only if the engine wrote no info line for this
\* search, whatever the place of readyok among the info lines.
C5_LastInfoReturned ==
    (bmRet.kind = "return" /\ bmRet.err = NoErr)
    => bmRet.val.Info = IF emitted[act.engine] = "" THEN Nil
                        ELSE ParseInfo(emitted[act.engine]).info

\* the record ParseInfo is to give for the values written into a line
InfoOf(v) ==
    [Depth |-> v.depth, Seldepth |-> v.seldepth, Multipv |-> v.multipv,
     Score |-> [Eval |-> v.kind, Value |-> v.value],
     Nodes |-> v.nodes, Nps |-> v.nps, Tbhits |-> v.tbhits, Time |-> v.time,
     Pv |-> Join(v.pv)]

\* C6: for a line with all fields in the engine's order, ParseInfo returns,
\* with no error, the record holding exactly the values written into the
\* line: the seven integers, the score kind and value, and the move list.
C6_InfoRoundTrip ==
    (parseFn = "ParseInfo" /\ parseGen.shape = "info" /\ parseGen.missing = "none")
    => /\ parseOut.err = NoErr
       /\ parseOut.info = InfoOf(parseGen.vals)
       /\ Split(parseOut.info.Pv) = parseGen.vals.pv

\* a line with a negative centipawn score, two-digit depths and a promotion
\* in a principal variation of MaxPvLen moves was parsed
C6_Witness ==
    /\ parseFn = "ParseInfo"
    /\ parseGen.shape = "info"
    /\ parseGen.missing = "none"
    /\ parseGen.vals.value < 0
    /\ parseGen.vals.depth = 10
    /\ Len(parseGen.vals.pv) = MaxPvLen
    /\ parseGen.vals.pv[1] = "e7e8q"
    /\ parseOut.err = NoErr
    /\ parseOut.info.Score.Value = parseGen.vals.value

\* C7: for a line in which exactly one of the seven integer fields is
\* missing, ParseInfo returns no record and an error that names that field.
C7_MissingFieldNamed ==
    (parseFn = "ParseInfo" /\ parseGen.shape = "info" /\ parseGen.missing # "none")
    => /\ parseOut.info = Nil
       /\ HasAt(parseOut.err, 1, "Could not parse " \o parseGen.missing \o ":")

\* C8: for every "info string <free text>" line ParseInfo returns the empty
\* record and no error.
C8_NoticeNeverFails ==
    (parseFn = "ParseInfo" /\ parseGen.shape = "notice")
    => parseOut = [info |-> EmptyInfo, err |-> NoErr]

\* C9: "bestmove X" gives move X with no ponder move, "bestmove X ponder Y"
\* gives move X and ponder move Y ("(none)" included); no error in either.
C9_BestMoveForms ==
    (parseFn = "ParseBestMove" /\ Len(parseGen.toks) \in {2, 4})
    => /\ parseOut.kind = "return"
       /\ parseOut.err = NoErr
       /\ parseOut.val.Move = parseGen.toks[2]
       /\ parseOut.val.Ponder = IF Len(parseGen.toks) = 2 THEN "" ELSE parseGen.toks[4]

\* a line with the ponder move "(none)" was parsed, and "(none)" came back
C9_Witness ==
    /\ parseFn = "ParseBestMove"
    /\ Len(parseGen.toks) = 4
    /\ parseGen.toks[4] = "(none)"
    /\ parseOut.kind = "return"
    /\ parseOut.val.Ponder = "(none)"

\* C10: ParseBestMove does not panic on short lines: with fewer than two
\* tokens it returns an error and no result, with exactly three tokens it
\* returns the second token as the move and no ponder move.
C10_BestMoveTotal ==
    (parseFn = "ParseBestMove" /\ Len(parseGen.toks) \in {1, 3})
    => /\ parseOut.kind = "return"
       /\ Len(parseGen.toks) = 1 => parseOut.err # NoErr /\ parseOut.val = Nil
       /\ Len(parseGen.toks) = 3 => /\ parseOut.err = NoErr
                                    /\ parseOut.val.Move = parseGen.toks[2]
                                    /\ parseOut.val.Ponder = ""

\* C11: once an IsReady call on a handle has returned an error (a
\* diagnostic line or a read error), every later method called on that
\* handle returns an error, whatever the engine writes.
C11_FaultedIsTerminal ==
    [][(faulted[act.engine] /\ pc \notin {"idle", "panicked"} /\ pc' = "idle")
       => opRet'.err # NoErr]_vars

\* C12: when the IsReady call of SetPosition or of Go returns an error
\* inside Match.Move (a diagnostic line or the end of the stream), Match.Move
\* returns that error, with the history and the winner as they were.
C12_HandshakeErrorReturned ==
    [][(/\ pc \in {"Move.SetPosition", "Move.BestMove.Go"}
        /\ CanRead(act.engine)
        /\ hsRet' \notin {NoErr, "pending"})
       => /\ pc' \notin HandshakePcs \cup BestMovePcs
          /\ moveRet' = Returned(FALSE, hsRet')
          /\ match' = match]_vars

\* C13: in NewEngineWithAllOptions, when the IsReady call of any SetOption
\* (the Ponder option included) returns an error, the launch returns that
\* error and no handle.
C13_LaunchAbortsOnFailure ==
    [][(/\ pc \in {"Launch.Ponder", "Launch.Param"}
        /\ CanRead(act.engine)
        /\ hsRet' \notin {NoErr, "pending"})
       => /\ pc' = "idle"
          /\ opRet' = Returned(Nil, hsRet')]_vars

\* C14: a call of Match.Move on a match whose winner is set returns
\* continues = false, writes no command and leaves the history and the
\* winner as they are.
C14_WinnerIsTerminal ==
    [][(pc = "Run" /\ match.Winner # "")
       => /\ match' = match
          /\ pipeIn' = pipeIn
          /\ moveRet' = Returned(FALSE, NoErr)
          /\ pc' = "returned"]_vars

\* C15: for every order of the seven integer fields and the score before
\* the pv field, ParseInfo returns with no error the record that holds for
\* each key the value written next to that key.
C15_OrderIndependent ==
    (parseFn = "ParseInfo" /\ parseGen.shape = "permuted")
    => /\ parseOut.err = NoErr
       /\ parseOut.info = InfoOf(parseGen.vals)

\* the caller's thread is in a read on the handle's pipe, the pipe is empty,
\* and the engine has read every command and ended its search: it writes
\* nothing more, and the read never returns
BlockedForGood ==
    /\ pc \in HandshakePcs \cup BestMovePcs
    /\ pipeOut[act.engine] = <<>>
    /\ pipeIn[act.engine] = <<>>
    /\ ~searching[act.engine]
    /\ ~closed[act.engine]

\* C16: a call of BestMove on an engine that writes, after go and isready,
\* info lines, one readyok and one bestmove line in any order is never left
\* in a read that cannot return, and what it returns is the move of the
\* bestmove line.
C16_BestMoveReturns ==
    /\ ~BlockedForGood
    /\ (pc = "idle" /\ bmRet # NotYet)
          => bmRet.kind = "return" /\ bmRet.err = NoErr /\ bmRet.val.Move = "e2e4"

\* the engine behind handle e still has a readyok to write, or has written
\* one that was not read: a probe of the handle is not acknowledged yet
AckOutstanding(e) ==
    \/ ~closed[e] /\ \E i \in 1..Len(pipeIn[e]) : pipeIn[e][i] = "isready"
    \/ \E i \in 1..Len(pipeOut[e]) : TrimSpace(pipeOut[e][i]) = "readyok"

\* C17: when a method of a handle has returned, with or without an error,
\* no acknowledgement of a probe sent on that handle is outstanding, so that
\* the next method's handshake cannot end on the readyok of an earlier probe.
C17_NoAckLeftBehind ==
    (pc = "idle") => ~AckOutstanding(act.engine)

\* C18: the history never holds more than MaxMoves moves; a step appends at
\* most one move to it and changes no move it holds; and every search of
\* Match.Run whose BestMove call returns either ends the run, which then
\* returns the winner recorded so far, or leaves a history one move longer
\* for the next search, so that the run ends after at most MaxMoves searches.
C18_RunTerminates ==
    [][/\ Len(match'.Moves) <= MaxMoves
       /\ \/ match'.Moves = match.Moves
          \/ /\ Len(match'.Moves) = Len(match.Moves) + 1
             /\ SubSeq(match'.Moves, 1, Len(match.Moves)) = match.Moves
       /\ (pc = "Move.BestMove" /\ bmRet'.kind = "return")
            => \/ /\ pc' = "returned"
                  /\ runRet'.kind = "return"
                  /\ runRet'.err = NoErr => runRet'.val = match'.Winner
               \/ /\ pc' = "Run"
                  /\ Len(match'.Moves) = Len(match.Moves) + 1]_vars

\* C19: when BestMove returns a result with no info, Match.Move appends the
\* move, leaves the winner absent and returns continues = false for the
\* ponder move "(none)" and continues = true otherwise.
C19_AbsentInfoTolerated ==
    [][(/\ pc = "Move.BestMove"
        /\ bmRet'.kind = "return"
        /\ bmRet'.err = NoErr
        /\ bmRet'.val.Info = Nil)
       => /\ match' = [match EXCEPT !.Moves = Append(@, bmRet'.val.Move)]
          /\ moveRet' = Returned(bmRet'.val.Ponder # "(none)", NoErr)
          /\ pc' \in {"Run", "returned"}]_vars

\* a search is outstanding on handle e: a go command was written to it and
\* the bestmove line of that search has not been read
SearchOutstanding(e) ==
    \/ \E i \in 1..Len(pipeIn[e]) : HasAt(pipeIn[e][i], 1, "go ")
    \/ searching[e]
    \/ \E i \in 1..Len(pipeOut[e]) : HasAt(TrimSpace(pipeOut[e][i]), 1, "bestmove")

\* C20: during Match.Run the two handles never have a search outstanding at
\* the same time, and while a search is outstanding on one handle no command
\* is written to the other.
C20_TurnsSerialised ==
    [][/\ ~(SearchOutstanding("engine1") /\ SearchOutstanding("engine2"))
       /\ \A e \in Engines :
             SearchOutstanding(e)
             => Len(pipeIn'[OtherEngine(e)]) <= Len(pipeIn[OtherEngine(e)])]_vars

\* in the second turn black's search is outstanding, with an info line
\* written, after white's search of the first turn was read to its bestmove
\* line; white's handle has nothing in flight
C20_Witness ==
    /\ pc = "Move.BestMove"
    /\ Len(match.Moves) = 1
    /\ searching[match.BlackEngine]
    /\ emitted[match.BlackEngine] # ""
    /\ ~SearchOutstanding(match.WhiteEngine)
    /\ pipeIn[match.WhiteEngine] = <<>>

====
